---- MODULE Spec2Model ----
(***************************************************************************)
(* A model of chad_generator/generator.py: the text wrapper and caption    *)
(* formatter (ArgumentGenerator._wrap_text, _format_point), the two        *)
(* caption strategies (generate_points, _generate_themed_points), the      *)
(* layout engine (TextLayoutManager.get_positions) and the compositor with *)
(* its driver (WojakMemeGenerator.generate_meme, _main_io_handling).       *)
(*                                                                         *)
(* A Python str is a sequence of one-character strings.  The character     *)
(* U+2022 (the bullet glyph) is written "bullet".                          *)
(***************************************************************************)
EXTENDS Integers, Sequences, FiniteSets, TLC

VARIABLES
    w_pc,        \* text wrapper run: "input" | "formatted"
    point,       \* the caption handed to _format_point
    formatted,   \* what _format_point returned
    t_pc,        \* themed run: "input" | "returned" | "raised"
    t_topic,     \* _generate_themed_points: topic
    t_is_chad,   \* _generate_themed_points: is_chad
    t_num,       \* _generate_themed_points: num_points
    t_selected,  \* the phrases random.sample drew, in order
    t_result,    \* the list _generate_themed_points returned
    l_pc,        \* layout run: "constructed" | "returned"
    l_num,       \* TextLayoutManager.num_points
    l_is_chad,   \* get_positions: is_chad
    l_base,      \* y of each point before the jitter is added, times YDen(l_num)
    l_positions, \* the list get_positions returned
    pc,          \* the program: "start" | "constructed" | "rendered" | "saved"
                 \*   | "crashed" (an uncaught exception) | "exited" (exit(n))
    via_main,    \* TRUE: run by _main_io_handling; FALSE: WojakMemeGenerator used directly
    topic,       \* the topic string
    virgin_side, \* "left" | "right"
    gen,         \* the WojakMemeGenerator with its ArgumentGenerator and layout manager
    response,    \* what client.messages.create did for generate_points
    gp,          \* what generate_points did
    network_calls, \* the calls of client.messages.create that reached the client
    topic_parts, \* generate_meme: topic_parts
    labels,      \* generate_meme: <<virgin, chad>> once assigned
    positions,   \* generate_meme: virgin_positions and chad_positions
    meme,        \* what generate_meme returned
    error,       \* <<the uncaught exception, the function that raised it>>
    exit_status  \* the status the process exited with

wrapVars == <<w_pc, point, formatted>>
themedVars == <<t_pc, t_topic, t_is_chad, t_num, t_selected, t_result>>
layoutVars == <<l_pc, l_num, l_is_chad, l_base, l_positions>>
mainVars ==
    <<pc, via_main, topic, virgin_side, gen, response, gp, network_calls,
      topic_parts, labels, positions, meme, error, exit_status>>

(***************************************************************************)
(* Characters and strings                                                  *)
(***************************************************************************)
NoValue == <<"none">>

BULLET == "bullet"
NL == "\n"

Letters ==
    {"a", "b", "c", "d", "e", "f", "g", "h", "i", "j", "k", "l", "m", "n", "o",
     "p", "q", "r", "s", "t", "u", "v", "w", "x", "y", "z",
     "A", "B", "C", "D", "E", "F", "G", "H", "I", "J", "K", "L", "M", "N", "O",
     "P", "Q", "R", "S", "T", "U", "V", "W", "X", "Y", "Z"}
Digits == {"0", "1", "2", "3", "4", "5", "6", "7", "8", "9"}

\* str.isspace for the characters of the model
IsSpace(c) == c \in {" ", NL}
\* textwrap: letter = [^\d\W]
IsLetter(c) == c \in Letters
\* textwrap: \w
IsWordChar(c) == c \in Letters \cup Digits
\* textwrap: word_punct = [\w!"'&.,?]
IsWordPunct(c) == IsWordChar(c) \/ c \in {"!", "'", "&", ".", ",", "?"}

\* s[k] when k is an index of s, and no character at all otherwise
At(s, k) == IF k \in 1..Len(s) THEN s[k] ELSE ""

RECURSIVE Concat(_)
\* "".join(parts)
Concat(parts) ==
    IF parts = <<>> THEN <<>> ELSE Head(parts) \o Concat(Tail(parts))

RECURSIVE Join(_, _)
\* sep.join(parts)
Join(sep, parts) ==
    IF parts = <<>> THEN <<>>
    ELSE IF Len(parts) = 1 THEN parts[1]
    ELSE parts[1] \o <<sep>> \o Join(sep, Tail(parts))

RECURSIVE SplitFrom(_, _, _, _)
SplitFrom(s, sep, i, cur) ==
    IF i > Len(s) THEN <<cur>>
    ELSE IF s[i] = sep THEN <<cur>> \o SplitFrom(s, sep, i + 1, <<>>)
    ELSE SplitFrom(s, sep, i + 1, Append(cur, s[i]))

\* s.split(sep) for a one-character sep: "".split(sep) is [""]
Split(s, sep) == SplitFrom(s, sep, 1, <<>>)

RECURSIVE SplitOnFrom(_, _, _, _)
SplitOnFrom(s, sep, i, cur) ==
    IF i > Len(s) THEN <<cur>>
    ELSE IF i + Len(sep) - 1 <= Len(s) /\ SubSeq(s, i, i + Len(sep) - 1) = sep
    THEN <<cur>> \o SplitOnFrom(s, sep, i + Len(sep), <<>>)
    ELSE SplitOnFrom(s, sep, i + 1, Append(cur, s[i]))

\* s.split(sep) for a separator of several characters
SplitOn(s, sep) == SplitOnFrom(s, sep, 1, <<>>)

RECURSIVE LStrip(_, _)
\* s.lstrip(chars)
LStrip(s, chars) ==
    IF s # <<>> /\ Head(s) \in chars THEN LStrip(Tail(s), chars) ELSE s

RECURSIVE RStrip(_, _)
\* s.rstrip(chars)
RStrip(s, chars) ==
    IF s # <<>> /\ s[Len(s)] \in chars
    THEN RStrip(SubSeq(s, 1, Len(s) - 1), chars) ELSE s

\* s.strip()
Strip(s) == RStrip(LStrip(s, {" ", NL}), {" ", NL})

\* chunk.strip() == ''
IsBlank(chunk) == \A k \in 1..Len(chunk) : IsSpace(chunk[k])

(***************************************************************************)
(* textwrap.wrap(text, width, break_long_words=False), with the defaults   *)
(* replace_whitespace, drop_whitespace and break_on_hyphens                *)
(***************************************************************************)
\* TextWrapper._munge_whitespace: every whitespace character becomes a space
MungeWhitespace(text) ==
    [k \in 1..Len(text) |-> IF IsSpace(text[k]) THEN " " ELSE text[k]]

RECURSIVE HyphenRun(_, _)
\* the length of the run of hyphens that starts at s[k]
HyphenRun(s, k) == IF At(s, k) = "-" THEN 1 + HyphenRun(s, k + 1) ELSE 0

RECURSIVE SpaceRunEnd(_, _)
SpaceRunEnd(s, k) == IF At(s, k) = " " THEN SpaceRunEnd(s, k + 1) ELSE k

\* wordsep_re, "-{2,}(?=\w)" at s[k]: an em-dash that a word character follows
EmDashAt(s, k) ==
    LET run == HyphenRun(s, k)
    IN  run >= 2 /\ IsWordChar(At(s, k + run))

\* wordsep_re, the hyphenated-word break: s[e] is a hyphen after two letters
\* (or letter-hyphen-letter) and before letter, optional hyphen, letter
HyphenBreakAt(s, e) ==
    /\ At(s, e) = "-"
    /\ \/ IsLetter(At(s, e - 2)) /\ IsLetter(At(s, e - 1))
       \/ IsLetter(At(s, e - 3)) /\ At(s, e - 2) = "-" /\ IsLetter(At(s, e - 1))
    /\ IsLetter(At(s, e + 1))
    /\ \/ IsLetter(At(s, e + 2))
       \/ At(s, e + 2) = "-" /\ IsLetter(At(s, e + 3))

RECURSIVE WordEnd(_, _)
\* wordsep_re, the third alternative: the word that starts before s[e] ends
\* before the index returned (the shortest match)
WordEnd(s, e) ==
    IF HyphenBreakAt(s, e) THEN e + 1
    ELSE IF e > Len(s) \/ At(s, e) = " " THEN e
    ELSE IF IsWordPunct(At(s, e - 1)) /\ EmDashAt(s, e) THEN e
    ELSE WordEnd(s, e + 1)

\* the index after the chunk of wordsep_re that starts at s[i]
ChunkEnd(s, i) ==
    IF s[i] = " " THEN SpaceRunEnd(s, i)
    ELSE IF s[i] = "-" /\ IsWordPunct(At(s, i - 1)) /\ EmDashAt(s, i)
    THEN i + HyphenRun(s, i)
    ELSE WordEnd(s, i + 1)

RECURSIVE SplitChunksFrom(_, _)
SplitChunksFrom(s, i) ==
    IF i > Len(s) THEN <<>>
    ELSE LET e == ChunkEnd(s, i)
         IN  <<SubSeq(s, i, e - 1)>> \o SplitChunksFrom(s, e)

\* TextWrapper._split_chunks
SplitChunks(s) == SplitChunksFrom(s, 1)

RECURSIVE FillLine(_, _, _, _)
\* the inner loop of _wrap_chunks: chunks are taken while they fit the width
FillLine(chunks, cur, cur_len, width) ==
    IF chunks # <<>> /\ cur_len + Len(Head(chunks)) <= width
    THEN FillLine(Tail(chunks), Append(cur, Head(chunks)),
                  cur_len + Len(Head(chunks)), width)
    ELSE [cur |-> cur, rest |-> chunks]

HandleLongWordBreaking(f, width) ==
    LET space_left == IF width < 1 THEN 1 ELSE width - Len(Concat(f.cur))
        long == Head(f.rest)
    IN  [cur |-> Append(f.cur, SubSeq(long, 1, space_left)),
         rest |-> <<SubSeq(long, space_left + 1, Len(long))>> \o Tail(f.rest)]

\* TextWrapper._handle_long_word with break_long_words=False: a chunk longer
\* than the width gets a line of its own, and only when the line is empty
HandleLongWord(f, width) ==
    IF f.cur = <<>>
    THEN [cur |-> <<Head(f.rest)>>, rest |-> Tail(f.rest)]
    ELSE f

RECURSIVE WrapChunks(_, _, _)
\* TextWrapper._wrap_chunks
WrapChunks(chunks, lines, width) ==
    IF chunks = <<>> THEN lines
    ELSE
        LET dropped == IF IsBlank(Head(chunks)) /\ lines # <<>>
                       THEN Tail(chunks) ELSE chunks
            f == FillLine(dropped, <<>>, 0, width)
            g == IF f.rest # <<>> /\ Len(Head(f.rest)) > width
                 THEN HandleLongWord(f, width) ELSE f
            cur == IF g.cur # <<>> /\ IsBlank(g.cur[Len(g.cur)])
                   THEN SubSeq(g.cur, 1, Len(g.cur) - 1) ELSE g.cur
        IN  WrapChunks(g.rest,
                       IF cur # <<>> THEN Append(lines, Concat(cur)) ELSE lines,
                       width)

\* textwrap.wrap
Wrap(text, width) == WrapChunks(SplitChunks(MungeWhitespace(text)), <<>>, width)

max_chars == 25

\* ArgumentGenerator._wrap_text
WrapText(text) == Join(NL, Wrap(text, max_chars))

\* the characters _format_point strips from the left of a caption
BulletChars == {"-", " ", "*", BULLET}

FormatPointNoIndent(pt) ==
    LET lines == Split(WrapText(Strip(LStrip(pt, BulletChars))), NL)
    IN  Join(NL, [k \in 1..Len(lines) |->
                    IF k = 1 THEN <<BULLET, " ">> \o lines[k] ELSE lines[k]])

\* ArgumentGenerator._format_point
FormatPoint(pt) ==
    LET stripped == Strip(LStrip(pt, BulletChars))
        wrapped == WrapText(stripped)
        lines == Split(wrapped, NL)
    IN  Join(NL, [k \in 1..Len(lines) |->
                    IF k = 1 THEN <<BULLET, " ">> \o lines[k]
                    ELSE <<" ", " ">> \o lines[k]])

(***************************************************************************)
(* The deterministic caption strategy                                      *)
(***************************************************************************)
\* _generate_themed_points: chad_templates, the f-strings filled with topic t
chad_templates(t) ==
    << t \o <<" ", "f", "e", "a", "r", "e", "d", " ", "b", "y", " ", "g", "o", "d", "s">>,
       <<"M", "a", "k", "e", "s", " ", "c", "h", "a", "d", "s", " ", "s", "t", "r", "o", "n", "g", "e", "r">>,
       t \o <<" ", "e", "n", "e", "r", "g", "y", " ", "r", "a", "d", "i", "a", "t", "e", "s">>,
       <<"N", "e", "v", "e", "r", " ", "n", "e", "e", "d", "s", " ", "p", "r", "a", "c", "t", "i", "c", "e">>,
       <<"C", "r", "u", "s", "h", "e", "s", " ", "c", "o", "m", "p", "e", "t", "i", "t", "i", "o", "n">>,
       <<"H", "a", "s", " ", "3", "0", "0", " ", "I", "Q", " ", "m", "o", "v", "e", "s">>,
       <<"G", "i", "g", "a", "c", "h", "a", "d", " ", "a", "p", "p", "r", "o", "v", "e", "s">>,
       <<"S", "i", "g", "m", "a", " ">> \o t \o <<" ", "g", "r", "i", "n", "d", "s", "e", "t">> >>

\* _generate_themed_points: virgin_templates
virgin_templates(t) ==
    << <<"M", "o", "m", " ", "s", "t", "i", "l", "l", " ", "b", "u", "y", "s", " ">> \o t,
       <<"S", "c", "a", "r", "e", "d", " ", "o", "f", " ">> \o t \o <<" ", "p", "o", "w", "e", "r">>,
       <<"N", "e", "e", "d", "s", " ">> \o t \o <<" ", "m", "a", "n", "u", "a", "l">>,
       <<"E", "v", "e", "r", "y", "o", "n", "e", " ", "m", "o", "c", "k", "s", " ", "h", "i", "m">>,
       <<"C", "a", "n", "'", "t", " ", "h", "a", "n", "d", "l", "e", " ", "b", "a", "s", "i", "c", "s">>,
       <<"C", "r", "i", "e", "s", " ", "a", "t", " ">> \o t,
       <<"Z", "e", "r", "o", " ", "s", "k", "i", "l", "l", " ", "l", "e", "v", "e", "l">>,
       <<"S", "t", "i", "l", "l", " ", "u", "s", "e", "s", " ", "t", "r", "a", "i", "n", "i", "n", "g", " ", "m", "o", "d", "e">> >>

RECURSIVE Arrangements(_, _)
\* the sequences of k distinct members of S
Arrangements(S, k) ==
    IF k = 0 THEN { <<>> }
    ELSE UNION { { <<x>> \o a : a \in Arrangements(S \ {x}, k - 1) } : x \in S }

SampleWithReplacement(population, k) ==
    IF k < 0 \/ k > Len(population) THEN {}
    ELSE { [j \in 1..k |-> population[idx[j]]] : idx \in [1..k -> 1..Len(population)] }

\* random.sample(population, k): the lists it can return, k distinct positions
\* of the population in any order; none (ValueError) when k is negative or
\* larger than the population
Sample(population, k) ==
    IF k < 0 \/ k > Len(population) THEN {}
    ELSE { [j \in 1..k |-> population[idx[j]]] :
             idx \in Arrangements(1..Len(population), k) }

\* the templates _generate_themed_points samples from
ThemedTemplates(t, is_chad) ==
    IF is_chad THEN chad_templates(t) ELSE virgin_templates(t)

(***************************************************************************)
(* The layout engine.  A coordinate is a fraction: x in twentieths of a     *)
(* pixel, y over YDen(num_points); int() truncates toward zero.            *)
(***************************************************************************)
\* WojakMemeGenerator.__init__: canvas_size
canvas_width == 1600
canvas_height == 1000
\* get_positions: total_height
total_height == 400
\* get_positions: random.uniform(-30, 30) and random.uniform(-20, 20)
x_jitter == 30
y_jitter == 20

XDen == 20
YDen(num_points) == 2 * (IF num_points > 1 THEN num_points - 1 ELSE 1)

\* int(n / d)
Trunc(n, d) == IF n >= 0 THEN n \div d ELSE -((-n) \div d)

\* TextLayoutManager.__init__: centers and spreads, times XDen (x) and 2 (y)
TextLayoutManager(width, height, num_points) ==
    [ width |-> width, height |-> height, num_points |-> num_points,
      centers |-> [ virgin |-> <<width * 7, height>>,
                    chad |-> <<width * 13, height>> ],
      spreads |-> [ virgin |-> <<width * 1, width * 2>>,
                    chad |-> <<width * 14, width * 19>> ] ]

\* get_positions: base_y + i * vertical_step, times YDen(num_points), for the
\* index i of range(num_points)
BaseY(lm, is_chad, i) ==
    LET center == IF is_chad THEN lm.centers.chad ELSE lm.centers.virgin
        base_y2 == center[2] - total_height     \* twice base_y
    IN  IF lm.num_points > 1
        THEN base_y2 * (lm.num_points - 1) + i * total_height * 2
        ELSE base_y2

GetPositionsSwapped(lm, is_chad, jx, jy) ==
    [ k \in 1..lm.num_points |->
        << Trunc((IF is_chad THEN lm.spreads.virgin[2] ELSE lm.spreads.chad[1])
                 + jx[k], XDen),
           Trunc(BaseY(lm, is_chad, k - 1) + jy[k] * (YDen(lm.num_points) \div 2),
                 YDen(lm.num_points)) >> ]

\* TextLayoutManager.get_positions; jx[k] is the k-th x_offset in twentieths,
\* jy[k] the k-th vertical variation in halves
GetPositions(lm, is_chad, jx, jy) ==
    LET spread_range == IF is_chad THEN lm.spreads.chad ELSE lm.spreads.virgin
    IN  [ k \in 1..lm.num_points |->
            << Trunc((IF is_chad THEN spread_range[1] ELSE spread_range[2])
                     + jx[k], XDen),
               Trunc(BaseY(lm, is_chad, k - 1)
                     + jy[k] * (YDen(lm.num_points) \div 2),
                     YDen(lm.num_points)) >> ]

(***************************************************************************)
(* The text wrapper on its own: a caption is drawn, _format_point is       *)
(* applied to it                                                           *)
(***************************************************************************)
MaxWords == 3

Rep(c, n) == [k \in 1..n |-> c]

\* the words captions are made of: a short word, a word of half a line, a
\* word longer than a line, a hyphenated word, a word with an em-dash
Vocabulary ==
    { <<"a">>,
      Rep("b", 12),
      Rep("c", 26),
      <<"d", "d", "d", "d", "-", "e", "e", "e", "e">>,
      <<"f", "f", "-", "-", "g", "g">> }

Separators == { <<" ">>, <<" ", NL>> }

Prefixes == { <<>>, <<"-", " ">>, <<BULLET, " ">>, <<"*">>, <<" ">> }

RECURSIVE Texts(_)
\* the texts of exactly n words
Texts(n) ==
    IF n = 0 THEN { <<>> }
    ELSE IF n = 1 THEN Vocabulary
    ELSE { t \o sep \o w : t \in Texts(n - 1), sep \in Separators, w \in Vocabulary }

CaptionInputs ==
    { p \o t : p \in Prefixes, t \in UNION { Texts(n) : n \in 0..MaxWords } }

WrapInit ==
    /\ w_pc = "input"
    /\ point \in CaptionInputs
    /\ formatted = NoValue

\* one call of ArgumentGenerator._format_point
FormatPointCall ==
    /\ w_pc = "input"
    /\ formatted' = FormatPoint(point)
    /\ w_pc' = "formatted"
    /\ UNCHANGED <<point, themedVars, layoutVars, mainVars>>

WrapIdle == w_pc = "idle" /\ point = NoValue /\ formatted = NoValue

(***************************************************************************)
(* The deterministic strategy on its own                                   *)
(***************************************************************************)
MaxSample == 4

ThemedTopics ==
    { <<"-", " ", "Q">>,
      <<"B", "a", "n", "a", "n", "a", "s", " ", "v", "s", " ",
        "A", "p", "p", "l", "e", "s">> }

\* num_points: 0..MaxSample, and one more than there are templates
ThemedCounts == (0..MaxSample) \cup {Len(chad_templates(<<>>)) + 1}

ThemedInit ==
    /\ t_pc = "input"
    /\ t_topic \in ThemedTopics
    /\ t_is_chad \in BOOLEAN
    /\ t_num \in ThemedCounts
    /\ t_selected = NoValue
    /\ t_result = NoValue

ThemedIdle ==
    /\ t_pc = "idle"
    /\ t_topic = NoValue
    /\ t_is_chad = FALSE
    /\ t_num = 0
    /\ t_selected = NoValue
    /\ t_result = NoValue

\* one call of ArgumentGenerator._generate_themed_points
GenerateThemedPoints ==
    /\ t_pc = "input"
    /\ LET templates == ThemedTemplates(t_topic, t_is_chad)
       IN  IF Sample(templates, t_num) = {}
           THEN \* random.sample raises ValueError
                /\ t_pc' = "raised"
                /\ UNCHANGED <<t_selected, t_result>>
           ELSE \E selected \in Sample(templates, t_num) :
                /\ t_selected' = selected
                /\ t_result' = [k \in 1..Len(selected) |-> FormatPoint(selected[k])]
                /\ t_pc' = "returned"
    /\ UNCHANGED <<t_topic, t_is_chad, t_num, wrapVars, layoutVars, mainVars>>

(***************************************************************************)
(* The layout engine on its own                                            *)
(***************************************************************************)
MaxLayoutPoints == 5

\* the (x_offset, vertical variation) pairs drawn for a point: the ends of
\* both ranges and a value inside them, in twentieths and in halves
Jitters ==
    { <<-x_jitter * XDen, -y_jitter * 2>>, <<-x_jitter * XDen, y_jitter * 2>>,
      <<10, 1>>, <<x_jitter * XDen, y_jitter * 2>> }

LayoutInit ==
    /\ l_pc = "constructed"
    /\ l_num \in 0..MaxLayoutPoints
    /\ l_is_chad \in BOOLEAN
    /\ l_base = NoValue
    /\ l_positions = NoValue

LayoutIdle ==
    /\ l_pc = "idle"
    /\ l_num = 0
    /\ l_is_chad = FALSE
    /\ l_base = NoValue
    /\ l_positions = NoValue

\* one call of TextLayoutManager.get_positions on the program's canvas
GetPositionsCall ==
    /\ l_pc = "constructed"
    /\ LET lm == TextLayoutManager(canvas_width, canvas_height, l_num)
       IN  \E j \in [1..l_num -> Jitters] :
             /\ l_positions' = GetPositions(lm, l_is_chad,
                                            [k \in 1..l_num |-> j[k][1]],
                                            [k \in 1..l_num |-> j[k][2]])
             /\ l_base' = [k \in 1..l_num |-> BaseY(lm, l_is_chad, k - 1)]
    /\ l_pc' = "returned"
    /\ UNCHANGED <<l_num, l_is_chad, wrapVars, themedVars, mainVars>>

(***************************************************************************)
(* The generative caption strategy                                         *)
(***************************************************************************)
\* a JSON string, and a JSON number, as items of a list of the response
JStr(text) == [is_str |-> TRUE, text |-> text]
JNum == [is_str |-> FALSE, text |-> <<>>]

Returned(chad, virgin) ==
    [kind |-> "return", exc |-> "none", status |-> 0, chad |-> chad, virgin |-> virgin]
Raised(exc) ==
    [kind |-> "raise", exc |-> exc, status |-> 0, chad |-> <<>>, virgin |-> <<>>]
\* exit(status): SystemExit, which is no Exception
Exited(status) ==
    [kind |-> "exit", exc |-> "SystemExit", status |-> status, chad |-> <<>>,
     virgin |-> <<>>]
NotCalled ==
    [kind |-> "none", exc |-> "none", status |-> 0, chad |-> <<>>, virgin |-> <<>>]

NoResponse ==
    [kind |-> "none", has_virgin |-> FALSE, virgin_points |-> <<>>,
     has_chad |-> FALSE, chad_points |-> <<>>]

\* generate_points, the body of the inner try: the response is parsed, its
\* two lists are read and counted, and every item is formatted
ParseAndFormat(resp, num_points) ==
    IF resp.kind = "empty_content" THEN Raised("IndexError")
    ELSE IF resp.kind = "not_json" THEN Raised("JSONDecodeError")
    ELSE IF ~resp.has_virgin \/ ~resp.has_chad THEN Raised("KeyError")
    ELSE IF Len(resp.virgin_points) # num_points \/ Len(resp.chad_points) # num_points
    THEN Raised("ValueError")
    ELSE IF \/ \E k \in 1..Len(resp.chad_points) : ~resp.chad_points[k].is_str
            \/ \E k \in 1..Len(resp.virgin_points) : ~resp.virgin_points[k].is_str
    THEN Raised("AttributeError")
    ELSE Returned([k \in 1..Len(resp.chad_points) |->
                      FormatPoint(resp.chad_points[k].text)],
                  [k \in 1..Len(resp.virgin_points) |->
                      FormatPoint(resp.virgin_points[k].text)])

\* generate_points, the inner try with its handler: except json.JSONDecodeError
InnerTry(resp, num_points) ==
    LET r == ParseAndFormat(resp, num_points)
    IN  IF r.kind = "raise" /\ r.exc = "JSONDecodeError" THEN Exited(2) ELSE r

\* generate_points, the body of the outer try: the request, then the inner try
RequestAndParse(generator, resp, num_points) ==
    IF ~generator.has_client THEN Raised("AttributeError")
    ELSE IF resp.kind = "network_error" THEN Raised("APIError")
    ELSE InnerTry(resp, num_points)

GeneratePointsCatchAll(generator, resp, num_points) ==
    LET r == RequestAndParse(generator, resp, num_points)
    IN  IF r.kind \in {"raise", "exit"} THEN Exited(1) ELSE r

GeneratePointsVirginFirst(generator, resp, num_points) ==
    LET r == RequestAndParse(generator, resp, num_points)
    IN  IF r.kind = "raise" THEN Exited(1)
        ELSE IF r.kind = "return" THEN Returned(r.virgin, r.chad)
        ELSE r

\* ArgumentGenerator.generate_points: except Exception takes every exception
\* of the body and not the SystemExit of the inner handler
GeneratePoints(generator, resp, num_points) ==
    LET r == RequestAndParse(generator, resp, num_points)
    IN  IF r.kind = "raise" THEN Exited(1) ELSE r

(***************************************************************************)
(* The compositor and its driver                                           *)
(***************************************************************************)
\* WojakMemeGenerator.__init__: num_points, its default
default_num_points == 5
\* WojakMemeGenerator.__init__: target_dimensions[1]
target_height == 500
\* generate_meme: the y of the pasted images and of the titles
paste_y == 250
title_y == 100

Image(width, height) == [ok |-> TRUE, width |-> width, height |-> height]
\* a file Image.open cannot read
BrokenImage == [ok |-> FALSE, width |-> 0, height |-> 0]

\* the template directories: missing, empty, two virgin and two chad files,
\* a virgin file alone, a virgin file that is no image
TemplateDirs ==
    { [exists |-> FALSE, virgin |-> <<>>, chad |-> <<>>],
      [exists |-> TRUE, virgin |-> <<>>, chad |-> <<>>],
      [exists |-> TRUE, virgin |-> <<Image(400, 500), Image(300, 600)>>,
                        chad |-> <<Image(500, 500), Image(400, 500)>>],
      [exists |-> TRUE, virgin |-> <<Image(400, 500)>>, chad |-> <<>>],
      [exists |-> TRUE, virgin |-> <<BrokenImage>>, chad |-> <<Image(400, 500)>>] }

Min(a, b) == IF a <= b THEN a ELSE b

\* WojakMemeGenerator._map_template_pairs: zip of the two sorted listings
MapTemplatePairs(dir) ==
    [k \in 1..Min(Len(dir.virgin), Len(dir.chad)) |-> <<dir.virgin[k], dir.chad[k]>>]

\* WojakMemeGenerator._resize_template: the new width
ResizeTemplate(img) ==
    [img EXCEPT !.width = (target_height * img.width) \div img.height,
                !.height = target_height]

\* the fonts generate_meme can end with, and the width of a title glyph in each
Fonts == { [name |-> "DejaVuSans-Bold", advance |-> 28],
           [name |-> "default", advance |-> 24] }

\* font.getbbox(text): bbox[2] - bbox[0]
TextWidth(font, text) == Len(text) * font.advance

NoGenerator ==
    [api_key |-> "None", use_api |-> FALSE, has_client |-> FALSE, num_points |-> 0,
     template_pairs |-> <<>>]

\* WojakMemeGenerator.__init__ with ArgumentGenerator.__init__: bool(api_key)
\* decides use_api, and the client exists only with use_api
WojakMemeGenerator(dir, api_key, num_points) ==
    [api_key |-> api_key,
     use_api |-> api_key \notin {"None", ""},
     has_client |-> api_key \notin {"None", ""},
     num_points |-> num_points,
     template_pairs |-> MapTemplatePairs(dir)]

\* zip(points, positions)
Zip(points, places) ==
    [k \in 1..Min(Len(points), Len(places)) |-> <<points[k], places[k]>>]

Paste(who, x) ==
    [op |-> "paste", who |-> who, text |-> <<>>, pos |-> <<x, paste_y>>,
     is_title |-> FALSE]
\* one call of _add_text_with_outline
Text(who, text, pos, is_title) ==
    [op |-> "text", who |-> who, text |-> text, pos |-> pos, is_title |-> is_title]

\* generate_meme from the pasting of the images on: what is drawn on the canvas
Render(virgin, chad, virgin_img, chad_img, font, chad_points, virgin_points, virgin_positions, chad_positions) ==
    LET virgin_x == Trunc(canvas_width * 7 * 2 - virgin_img.width * XDen, XDen * 2)
        chad_x == Trunc(canvas_width * 13 * 2 - chad_img.width * XDen, XDen * 2)
        virgin_title == <<"T", "h", "e", " ", "V", "i", "r", "g", "i", "n", " ">> \o virgin
        chad_title == <<"T", "h", "e", " ", "C", "h", "a", "d", " ">> \o chad
        virgin_title_x == virgin_x + virgin_img.width \div 4
                          - TextWidth(font, virgin_title) \div 2
        chad_title_x == chad_x + chad_img.width \div 4
                        - TextWidth(font, chad_title) \div 2
        vz == Zip(virgin_points, virgin_positions)
        cz == Zip(chad_points, chad_positions)
    IN  << Paste("virgin", virgin_x), Paste("chad", chad_x),
           Text("virgin", virgin_title, <<virgin_title_x, title_y>>, TRUE),
           Text("chad", chad_title, <<chad_title_x, title_y>>, TRUE) >>
        \o [k \in 1..Len(vz) |-> Text("virgin", vz[k][1], vz[k][2], FALSE)]
        \o [k \in 1..Len(cz) |-> Text("chad", cz[k][1], cz[k][2], FALSE)]

(***************************************************************************)
(* The program                                                             *)
(***************************************************************************)
MaxNumPoints == 2

Topics ==
    { <<"B", "a", "n", "a", "n", "a", "s", " ", "v", "s", " ",
        "A", "p", "p", "l", "e", "s">>,
      <<"Q", " ", "v", "s", " ", "Z">>,
      <<"B", "a", "n", "a", "n", "a", "s">>,
      <<"A", " ", "v", "s", " ", "B", " ", "v", "s", " ", "C">> }

\* the items a response is made of: a short caption, a caption with a leading
\* dash that wraps, a caption of 43 characters
ItemPool ==
    << JStr(<<"Z", "e", "r", "o", " ", "s", "k", "i", "l", "l", " ",
              "l", "e", "v", "e", "l">>),
       JStr(<<"-", " ", "L", "i", "v", "e", "s", " ", "f", "o", "r", " ",
              "w", "e", "e", "k", "e", "n", "d", " ", "c", "o", "f", "f", "e", "e",
              " ", "b", "r", "e", "a", "k", "s">>),
       JStr(<<"G", "o", "v", "e", "r", "n", "m", "e", "n", "t", " ", "p", "a", "y",
              "s", " ", "h", "i", "m", " ", "t", "o", " ", "e", "x", "i", "s", "t",
              " ", "a", "n", "d", " ", "d", "o", " ", "n", "o", "t", "h", "i", "n",
              "g">>) >>

\* a list of k items: the first item of the pool k times (from = 0), or the
\* pool in its order, cyclically, from item `from` on
ItemList(k, from) ==
    [j \in 1..k |->
        IF from = 0 THEN ItemPool[1]
        ELSE ItemPool[((from + j - 2) % Len(ItemPool)) + 1]]

\* the lists a response can hold when n items were asked for: none, one fewer,
\* n, one more; and n items of which the first is a number
ItemLists(n) ==
    { ItemList(k, from) : k \in {0, n - 1, n, n + 1}, from \in 0..Len(ItemPool) }
    \cup { [ItemList(n, 0) EXCEPT ![1] = JNum] }

\* what client.messages.create can do: raise, answer without content, answer
\* with text that is no JSON, answer with a JSON object of either list or both
Responses(n) ==
    { [NoResponse EXCEPT !.kind = k] : k \in {"network_error", "empty_content", "not_json"} }
    \cup { [kind |-> "json", has_virgin |-> TRUE, virgin_points |-> v,
            has_chad |-> TRUE, chad_points |-> c] :
             v \in ItemLists(n), c \in ItemLists(n) }
    \cup { [kind |-> "json", has_virgin |-> FALSE, virgin_points |-> <<>>,
            has_chad |-> hc, chad_points |-> ItemList(IF hc THEN n ELSE 0, 0)] :
             hc \in BOOLEAN }
    \cup { [kind |-> "json", has_virgin |-> TRUE, virgin_points |-> ItemList(n, 0),
            has_chad |-> FALSE, chad_points |-> <<>>] }

NoError == <<"none", "none">>
NoMeme == [returned |-> FALSE, is_image |-> FALSE, canvas |-> <<>>]
NoPositions == [virgin |-> <<>>, chad |-> <<>>]

MainInit ==
    /\ pc = "start"
    /\ via_main \in BOOLEAN
    /\ topic \in Topics
    /\ virgin_side \in {"left", "right"}
    /\ gen = NoGenerator
    /\ response = NoResponse
    /\ gp = NotCalled
    /\ network_calls = 0
    /\ topic_parts = <<>>
    /\ labels = <<>>
    /\ positions = NoPositions
    /\ meme = NoMeme
    /\ error = NoError
    /\ exit_status = -1

MainIdle ==
    /\ pc = "idle"
    /\ via_main = FALSE
    /\ topic = <<>>
    /\ virgin_side = "left"
    /\ gen = NoGenerator
    /\ response = NoResponse
    /\ gp = NotCalled
    /\ network_calls = 0
    /\ topic_parts = <<>>
    /\ labels = <<>>
    /\ positions = NoPositions
    /\ meme = NoMeme
    /\ error = NoError
    /\ exit_status = -1

Crash(exc, where) ==
    /\ pc' = "crashed"
    /\ error' = <<exc, where>>

\* _main_io_handling up to the constructed generator: the key is read from
\* the environment (KeyError when it is not set; it may be empty) and the
\* generator is made with the default num_points
ConstructFromMain ==
    /\ pc = "start" /\ via_main
    /\ \E env \in {"unset", "", "sk-key"}, dir \in TemplateDirs :
         IF env = "unset"
         THEN Crash("KeyError", "_main_io_handling") /\ UNCHANGED gen
         ELSE IF ~dir.exists
         THEN Crash("FileNotFoundError", "__init__") /\ UNCHANGED gen
         ELSE /\ gen' = WojakMemeGenerator(dir, env, default_num_points)
              /\ pc' = "constructed"
              /\ UNCHANGED error
    /\ UNCHANGED <<via_main, topic, virgin_side, response, gp, network_calls,
                   topic_parts, labels, positions, meme, exit_status,
                   wrapVars, themedVars, layoutVars>>

\* WojakMemeGenerator(template_dir, api_key, num_points) made by a caller of
\* its own
ConstructDirectly ==
    /\ pc = "start" /\ ~via_main
    /\ \E api_key \in {"None", "", "sk-key"}, dir \in TemplateDirs,
          n \in (1..MaxNumPoints) \cup {default_num_points} :
         IF ~dir.exists
         THEN Crash("FileNotFoundError", "__init__") /\ UNCHANGED gen
         ELSE /\ gen' = WojakMemeGenerator(dir, api_key, n)
              /\ pc' = "constructed"
              /\ UNCHANGED error
    /\ UNCHANGED <<via_main, topic, virgin_side, response, gp, network_calls,
                   topic_parts, labels, positions, meme, exit_status,
                   wrapVars, themedVars, layoutVars>>

\* the jitter of the positions of one side: the same pair for every point
MemeJitters(n) == { [k \in 1..n |-> j] : j \in {<<-600, -40>>, <<600, 40>>} }

\* generate_meme after generate_points returned: font, pasting, titles,
\* positions and captions; chad_points, virgin_points = generate_points(...)
GenerateMemeRender(virgin, chad, pair) ==
    \E font \in Fonts, vj \in MemeJitters(gen.num_points),
       cj \in MemeJitters(gen.num_points) :
       LET lm == TextLayoutManager(canvas_width, canvas_height, gen.num_points)
       IN  /\ positions' =
                [virgin |-> GetPositions(lm, FALSE,
                                         [k \in 1..gen.num_points |-> vj[k][1]],
                                         [k \in 1..gen.num_points |-> vj[k][2]]),
                 chad |-> GetPositions(lm, TRUE,
                                       [k \in 1..gen.num_points |-> cj[k][1]],
                                       [k \in 1..gen.num_points |-> cj[k][2]])]
           /\ meme' = [returned |-> TRUE, is_image |-> TRUE,
                       canvas |-> Render(virgin, chad, ResizeTemplate(pair[1]),
                                         ResizeTemplate(pair[2]), font, gp'.chad,
                                         gp'.virgin, positions'.virgin,
                                         positions'.chad)]
           /\ pc' = "rendered"
           /\ UNCHANGED <<error, exit_status>>

\* generate_meme from the call of generate_points on
GenerateMemePoints(virgin, chad, pair) ==
    \E resp \in IF gen.has_client THEN Responses(gen.num_points) ELSE {NoResponse} :
       /\ response' = resp
       /\ gp' = GeneratePoints(gen, resp, gen.num_points)
       /\ network_calls' = network_calls + (IF gen.has_client THEN 1 ELSE 0)
       /\ IF gp'.kind = "exit"
          THEN /\ pc' = "exited"
               /\ exit_status' = gp'.status
               /\ UNCHANGED <<positions, meme, error>>
          ELSE GenerateMemeRender(virgin, chad, pair)

\* one call of WojakMemeGenerator.generate_meme(topic, virgin_side)
GenerateMeme ==
    /\ pc = "constructed"
    /\ LET parts == SplitOn(topic, <<" ", "v", "s", " ">>)
       IN  IF Len(parts) # 2
           THEN \* topic_parts = (topic, topic); return 0
                /\ topic_parts' = <<topic, topic>>
                /\ meme' = [returned |-> TRUE, is_image |-> FALSE, canvas |-> <<>>]
                /\ pc' = "rendered"
                /\ UNCHANGED <<labels, response, gp, network_calls, positions, error,
                               exit_status>>
           ELSE LET virgin == IF virgin_side = "left" THEN parts[1] ELSE parts[2]
                    chad == IF virgin_side = "left" THEN parts[2] ELSE parts[1]
                IN  /\ topic_parts' = parts
                    /\ labels' = <<virgin, chad>>
                    /\ IF gen.template_pairs = <<>>
                       THEN \* random.choice of an empty list
                            /\ Crash("IndexError", "generate_meme")
                            /\ UNCHANGED <<response, gp, network_calls, positions,
                                           meme, exit_status>>
                       ELSE \E c \in 1..Len(gen.template_pairs) :
                              LET pair == gen.template_pairs[c]
                              IN  IF ~pair[1].ok \/ ~pair[2].ok
                                  THEN /\ Crash("UnidentifiedImageError", "generate_meme")
                                       /\ UNCHANGED <<response, gp, network_calls,
                                                      positions, meme, exit_status>>
                                  ELSE GenerateMemePoints(virgin, chad, pair)
    /\ UNCHANGED <<via_main, topic, virgin_side, gen, wrapVars, themedVars, layoutVars>>

\* _main_io_handling after generate_meme returned: meme.save(output_filename)
\* (0 has no save; the directory res may be missing)
SaveMeme ==
    /\ pc = "rendered" /\ via_main
    /\ IF ~meme.is_image
       THEN Crash("AttributeError", "_main_io_handling")
       ELSE \E res_exists \in BOOLEAN :
              IF res_exists THEN pc' = "saved" /\ UNCHANGED error
              ELSE Crash("FileNotFoundError", "_main_io_handling")
    /\ UNCHANGED <<via_main, topic, virgin_side, gen, response, gp, network_calls,
                   topic_parts, labels, positions, meme, exit_status,
                   wrapVars, themedVars, layoutVars>>

vars == <<wrapVars, themedVars, layoutVars, mainVars>>

InitWrap == WrapInit /\ ThemedIdle /\ LayoutIdle /\ MainIdle
NextWrap == FormatPointCall
\* the text wrapper applied to one caption
SpecWrap == InitWrap /\ [][NextWrap]_vars

InitThemed == ThemedInit /\ WrapIdle /\ LayoutIdle /\ MainIdle
NextThemed == GenerateThemedPoints
\* the deterministic strategy called once
SpecThemed == InitThemed /\ [][NextThemed]_vars

InitLayout == LayoutInit /\ WrapIdle /\ ThemedIdle /\ MainIdle
NextLayout == GetPositionsCall
\* the layout engine called once
SpecLayout == InitLayout /\ [][NextLayout]_vars

Init == MainInit /\ WrapIdle /\ ThemedIdle /\ LayoutIdle
Next ==
    \/ ConstructFromMain
    \/ ConstructDirectly
    \/ GenerateMeme
    \/ SaveMeme
\* the program: a generator is made, generate_meme is called once, and
\* _main_io_handling saves what it returned
Spec == Init /\ [][Next]_vars

(***************************************************************************)
(* Properties of the text wrapper                                          *)
(***************************************************************************)
\* the text _format_point hands to _wrap_text
Source == Strip(LStrip(point, BulletChars))

FormattedLines == Split(formatted, NL)

\* a formatted line without its two-character prefix
Content(line) == SubSeq(line, 3, Len(line))

NonSpace(s) == SelectSeq(s, LAMBDA c : ~IsSpace(c))

RECURSIVE NthNonSpace(_, _, _)
\* the index in s, from index i on, of the m-th character that is no whitespace
NthNonSpace(s, m, i) ==
    IF IsSpace(s[i]) THEN NthNonSpace(s, m, i + 1)
    ELSE IF m = 1 THEN i
    ELSE NthNonSpace(s, m - 1, i + 1)

\* the index in Source of the last character of formatted line k
LineEnd(k) ==
    NthNonSpace(Source,
                Len(NonSpace(Concat([j \in 1..k |-> Content(FormattedLines[j])]))),
                1)

\* the characters of the caption are all there, in order
SameCharacters ==
    NonSpace(Concat([j \in 1..Len(FormattedLines) |-> Content(FormattedLines[j])]))
        = NonSpace(Source)

\* the break after line k falls on whitespace of the caption
BreakAtWhitespace(k) == IsSpace(Source[LineEnd(k) + 1])

\* the break after line k has a hyphen on one of its sides
BreakNextToHyphen(k) == Source[LineEnd(k)] = "-" \/ Source[LineEnd(k) + 1] = "-"

\* the text is one word (no whitespace in it) and longer than the budget
SingleLongWord(text) ==
    Len(text) > max_chars /\ \A j \in 1..Len(text) : ~IsSpace(text[j])

HasPrefix(s, prefix) ==
    Len(s) >= Len(prefix) /\ SubSeq(s, 1, Len(prefix)) = prefix

RemovePrefix(s, prefix) ==
    IF HasPrefix(s, prefix) THEN SubSeq(s, Len(prefix) + 1, Len(s)) ELSE s

\* the first line starts with the bullet, every other line with two spaces
Prefixed(text) ==
    LET lines == Split(text, NL)
    IN  \A k \in 1..Len(lines) :
           HasPrefix(lines[k], IF k = 1 THEN <<BULLET, " ">> ELSE <<" ", " ">>)

\* the bullet of the first line and the indentation of the others removed
Unformat(text) ==
    LET lines == Split(text, NL)
    IN  Join(NL, [k \in 1..Len(lines) |->
                    IF k = 1 THEN RemovePrefix(lines[k], <<BULLET, " ">>)
                    ELSE RemovePrefix(lines[k], <<" ", " ">>)])

\* whitespace normalization: the words of a text, in order
Words(text) == SelectSeq(Split(MungeWhitespace(text), " "), LAMBDA w : w # <<>>)

\* C8 as stated: the output of _format_point, its bullet and indentation
\* removed, equals _wrap_text of the original caption up to whitespace.
C8_AsStated ==
    w_pc = "formatted" => Words(Unformat(formatted)) = Words(WrapText(point))

\* C8 amended: the first line of the output of _format_point starts with
\* the bullet and every other line with two spaces, and the output without
\* them is exactly _wrap_text of the caption without its leading bullet
\* characters and surrounding whitespace.
C8_RoundTrip ==
    w_pc = "formatted" =>
        (Prefixed(formatted) /\ Unformat(formatted) = WrapText(Source))

\* a caption that starts with a bullet character and wraps into several lines
C8_Witness ==
    /\ w_pc = "formatted"
    /\ point # <<>> /\ point[1] \in {"-", "*", BULLET}
    /\ Len(FormattedLines) >= 2

(***************************************************************************)
(* Properties of the deterministic strategy                                *)
(***************************************************************************)
Distinct(seq) == \A i, j \in 1..Len(seq) : i # j => seq[i] # seq[j]

\* the first line of the caption starts with the bullet and a space
HasBullet(caption) ==
    LET first == Split(caption, NL)[1]
    IN  Len(first) >= 2 /\ SubSeq(first, 1, 2) = <<BULLET, " ">>

ThemedReturnsCaptions ==
    /\ t_pc = "returned"
    /\ Len(t_result) = t_num
    /\ Distinct(t_selected)
    /\ Distinct(t_result)
    /\ \A k \in 1..Len(t_result) : HasBullet(t_result[k])

\* C4 as stated: for every N >= 1 and topic, _generate_themed_points returns
\* exactly N pairwise distinct captions, each with the bullet on line one.
C4_AsStated ==
    (t_pc \in {"returned", "raised"} /\ t_num >= 1) => ThemedReturnsCaptions

\* C4 amended: for every N from 1 to the number of templates of a side (8)
\* and every topic, _generate_themed_points returns exactly N pairwise
\* distinct captions, each with the bullet on line one.
C4_ThemedPoints ==
    (t_pc \in {"returned", "raised"}
        /\ t_num \in 1..Len(ThemedTemplates(t_topic, t_is_chad)))
    => ThemedReturnsCaptions

\* several captions were returned, one of them wrapped into two lines
C4_Witness ==
    /\ t_pc = "returned"
    /\ t_num >= 3
    /\ \E k \in 1..Len(t_result) : Len(Split(t_result[k], NL)) >= 2

(***************************************************************************)
(* Properties of the layout engine                                         *)
(***************************************************************************)
\* C6: get_positions returns exactly N positions; on the 1600x1000 canvas
\* every chad x lies within [70% of the width - 30, 95% of the width + 30];
\* and the y before the jitter never decreases with the index.
C6_Positions ==
    l_pc = "returned" =>
        /\ Len(l_positions) = l_num
        /\ l_is_chad =>
              \A k \in 1..Len(l_positions) :
                 /\ l_positions[k][1] >= (1600 * 70) \div 100 - 30
                 /\ l_positions[k][1] <= (1600 * 95) \div 100 + 30
        /\ \A k \in 1..(Len(l_base) - 1) : l_base[k] <= l_base[k + 1]

\* five chad positions, one of them at the lowest x the jitter allows
C6_Witness ==
    /\ l_pc = "returned"
    /\ l_is_chad
    /\ l_num = 5
    /\ \E k \in 1..5 : l_positions[k][1] = 1090
    /\ l_base[1] < l_base[5]

(***************************************************************************)
(* Properties of the program                                               *)
(***************************************************************************)
\* the topic splits on " vs " into exactly two parts
WellFormed(t) == Len(SplitOn(t, <<" ", "v", "s", " ">>)) = 2

\* generate_meme was called
MemeRequested == topic_parts # <<>>

\* generate_points was called
PointsRequested == gp.kind # "none"

\* the response is a JSON object with both lists
HasBothLists(resp) == resp.kind = "json" /\ resp.has_virgin /\ resp.has_chad

\* the response has both lists and one of them does not hold n items
WrongCount(resp, n) ==
    /\ HasBothLists(resp)
    /\ Len(resp.virgin_points) # n \/ Len(resp.chad_points) # n

\* the response has both lists, n strings each
ValidResponse(resp, n) ==
    /\ HasBothLists(resp)
    /\ Len(resp.virgin_points) = n /\ Len(resp.chad_points) = n
    /\ \A k \in 1..n : resp.virgin_points[k].is_str /\ resp.chad_points[k].is_str

\* generate_points returned n formatted captions for each side
ReturnedCaptions(n) ==
    /\ gp.kind = "return"
    /\ Len(gp.chad) = n /\ Len(gp.virgin) = n
    /\ \A k \in 1..n : HasBullet(gp.chad[k]) /\ HasBullet(gp.virgin[k])

\* C1: when the response holds a number of items other than N on either
\* side, generate_points falls back to the deterministic strategy and still
\* returns N formatted captions per side; the process does not terminate.
C1_FallsBackOnWrongCount ==
    (PointsRequested /\ WrongCount(response, gen.num_points))
    => (ReturnedCaptions(gen.num_points) /\ pc # "exited")

\* C2: for a topic that does not split on " vs " into exactly two parts,
\* generate_meme takes the whole topic as both labels and completes the
\* render, and neither it nor _main_io_handling, which saves the result,
\* crashes.
C2_MalformedTopicRenders ==
    (~WellFormed(topic) /\ MemeRequested)
    => /\ labels = <<topic, topic>>
       /\ meme.returned /\ meme.is_image
       /\ error = NoError

\* C3: a generator made without a credential serves every caption request
\* of generate_meme by the deterministic strategy: no network call, exactly
\* N captions per side.
C3_NoCredentialIsDeterministic ==
    (PointsRequested /\ ~gen.use_api)
    => (ReturnedCaptions(gen.num_points) /\ network_calls = 0 /\ pc # "exited")

\* the canvas operations that satisfy test
Count(canvas, Test(_)) == Cardinality({k \in 1..Len(canvas) : Test(canvas[k])})

IsPaste(o) == o.op = "paste"
IsTitle(o) == o.op = "text" /\ o.is_title
IsCaption(o) == o.op = "text" /\ ~o.is_title

\* C7: for a well-formed topic, template images that load and a caption
\* source that yields N captions per side, generate_meme raises no error,
\* pastes exactly two images, draws exactly 2 titles and 2N caption blocks,
\* the N virgin captions at the N virgin-side positions and the N chad
\* captions at the N chad-side positions.
C7_Compositor ==
    (WellFormed(topic) /\ ValidResponse(response, gen.num_points))
    => LET n == gen.num_points
           canvas == meme.canvas
       IN  /\ pc \in {"rendered", "saved"} \/ error[2] = "_main_io_handling"
           /\ meme.returned /\ meme.is_image
           /\ Count(canvas, IsPaste) = 2
           /\ Count(canvas, IsTitle) = 2
           /\ Count(canvas, IsCaption) = 2 * n
           /\ Len(positions.virgin) = n /\ Len(positions.chad) = n
           /\ \A k \in 1..n :
                 /\ canvas[4 + k] =
                        Text("virgin", FormatPoint(response.virgin_points[k].text),
                             positions.virgin[k], FALSE)
                 /\ canvas[4 + n + k] =
                        Text("chad", FormatPoint(response.chad_points[k].text),
                             positions.chad[k], FALSE)
                 /\ positions.virgin[k][1] <= (1600 * 10) \div 100 + 30
                 /\ positions.chad[k][1] >= (1600 * 70) \div 100 - 30

\* "Bananas vs Apples", the virgin on the left, five captions per side that
\* differ between the sides, rendered
C7_Witness ==
    /\ topic = <<"B", "a", "n", "a", "n", "a", "s", " ", "v", "s", " ",
                 "A", "p", "p", "l", "e", "s">>
    /\ virgin_side = "left"
    /\ gen.num_points = 5
    /\ pc = "rendered"
    /\ meme.is_image
    /\ Len(meme.canvas) = 14
    /\ response.virgin_points # response.chad_points

\* the request in the prompt: each point under 40 characters
char_limit == 40

\* C9: generate_points accepts no response with an item longer than the 40
\* characters the prompt asks for: such a response is never returned as a
\* caption set.
C9_RejectsLongItems ==
    gp.kind = "return"
    => /\ \A k \in 1..Len(response.virgin_points) :
             Len(response.virgin_points[k].text) <= char_limit
       /\ \A k \in 1..Len(response.chad_points) :
             Len(response.chad_points[k].text) <= char_limit

\* how the request of generate_points fails, read off the generator and the
\* response: "none" when it does not
FailureKind(generator, resp, n) ==
    IF ~generator.has_client THEN "client"
    ELSE IF resp.kind = "network_error" THEN "network"
    ELSE IF resp.kind = "empty_content" THEN "content"
    ELSE IF resp.kind = "not_json" THEN "unparseable"
    ELSE IF ~resp.has_virgin \/ ~resp.has_chad THEN "missing_key"
    ELSE IF WrongCount(resp, n) THEN "count"
    ELSE IF ~ValidResponse(resp, n) THEN "item"
    ELSE "none"

\* C10: every failure of generate_points ends the process: a response that
\* is no JSON with status 2, every other failure (no client, network error,
\* no content, missing key, wrong count, an item that is no string) with
\* status 1; and no failure returns a caption set.
C10_ExitStatus ==
    PointsRequested
    => LET kind == FailureKind(gen, response, gen.num_points)
       IN  /\ kind = "unparseable" => (pc = "exited" /\ exit_status = 2)
           /\ kind \notin {"unparseable", "none"} => (pc = "exited" /\ exit_status = 1)
           /\ kind # "none" =>
                 (gp.kind = "exit" /\ gp.chad = <<>> /\ gp.virgin = <<>>
                    /\ ~meme.returned)

\* a response that is no JSON ended the process with status 2
C10_Witness ==
    /\ pc = "exited"
    /\ exit_status = 2
    /\ response.kind = "not_json"
    /\ network_calls = 1

====
